---------------------------- MODULE Spec2Model ----------------------------
(***************************************************************************)
(* Model of xiaoxuxiansheng/consistent_hash: the in-process skiplist hash  *)
(* ring (src/local/hash_ring.go), its self-expiring lock, and the          *)
(* placement engine (src/consistent_hash.go, migrateIn / migrateOut /      *)
(* getValidNextNode in src/pkg/os/os.go).                                  *)
(*                                                                         *)
(* Strings are sequences of one-character strings, so that building a      *)
(* virtual-node key ("%s_%d") and decoding it (strip after the last '_')   *)
(* are computed, not assumed to be inverse to each other.                  *)
(***************************************************************************)
EXTENDS Integers, Sequences, FiniteSets, TLC

VARIABLES
    \* ---- SkiplistHashRing (src/local/hash_ring.go:58-64) and the engine ----
    hr,        \* the ring: [root, nodes, nodeToReplicas, nodeToDataKey]
    hash,      \* the Encryptor: string -> score, fixed at construction
    migrator,  \* TRUE iff ConsistentHash.migrator is non-nil
    ret,       \* record of the last completed engine call
    registered,\* data keys passed to a successful GetNode
    orphaned,  \* data keys held by a node whose sole-node removal failed
    ncalls,    \* engine calls made so far in SpecRing
    \* ---- LockEntity (src/local/hash_ring.go:66-72) and its users ----
    lock,      \* primary mutex s.lock: TRUE iff locked
    doubleLock,\* guard mutex s.doubleLock: holder (a caller / timer) or Free
    owner,     \* s.owner: a token or ""
    cancel,    \* s.cancel: acquisition whose context it cancels, 0 = nil
    timer,     \* per acquisition: state of the expiry goroutine
    elapsed,   \* per acquisition: time.After(expireSeconds) has fired
    cancelled, \* per acquisition: cctx.Done() is closed
    pc,        \* per caller: position in Lock / Unlock / the engine call
    held,      \* per caller: acquisition it was granted and has not unlocked
    nacq,      \* number of Lock calls granted so far
    op,        \* per caller: engine call in progress
    running    \* migrator tasks started and not yet finished, per caller

ringVars == <<hr, hash, migrator, ret, registered, orphaned, ncalls>>
lockVars == <<lock, doubleLock, owner, cancel, timer, elapsed, cancelled,
              pc, held, nacq>>
opVars   == <<op, running>>
vars     == <<hr, hash, migrator, ret, registered, orphaned, ncalls,
              lock, doubleLock, owner, cancel, timer, elapsed, cancelled,
              pc, held, nacq, op, running>>

--------------------------------------------------------------------------
(* Program constants and the bounded input sets.                          *)

\* math.MaxInt32: scores live in [0, MaxInt32), the ring is taken modulo it
MaxInt32 == 2147483647

\* nil pointer of virtualNode.nexts, and the root sentinel as a position
NIL  == -9
ROOT == -8

\* highest level roll() may return in the model (the code's is unbounded)
MaxLevel == 1

\* ConsistentHashOptions.replicas as configured (WithReplicas)
OptReplicas == 1

\* node IDs: a plain one, and one that reads like a virtual-node key of it
NodeA  == <<"a">>
NodeA0 == <<"a", "_", "0">>
NodeIDs == {NodeA, NodeA0}

\* weights a caller passes to AddNode, per node: "a" gets two virtual
\* nodes, "a_0" one
WeightsOf(n) == IF n = NodeA THEN {2} ELSE {1}

\* engine calls in one run of SpecRing
MaxCalls == 4

\* data keys
KeyX == <<"x">>
KeyY == <<"y">>
DataKeySet == {KeyX, KeyY}

\* scores the Encryptor may produce: both ends of [0, MaxInt32) and a
\* neighbour, so that arcs wrap and incrScore / decrScore wrap
Scores == {0, 1, MaxInt32 - 1}

--------------------------------------------------------------------------
(* Strings.                                                               *)

Digits == <<"0", "1", "2", "3", "4", "5", "6", "7", "8", "9">>

\* fmt's %d for a non-negative int
RECURSIVE Itoa(_)
Itoa(i) == IF i < 10 THEN <<Digits[i + 1]>>
           ELSE Itoa(i \div 10) \o <<Digits[(i % 10) + 1]>>

\* strings.LastIndex(s, "_"), 0-based, -1 when absent
LastIndex(s) ==
    LET hits == {i \in 1..Len(s) : s[i] = "_"}
    IN IF hits = {} THEN -1
       ELSE (CHOOSE i \in hits : \A j \in hits : j <= i) - 1

\* fmt.Sprintf("%s_%d", nodeID, index)
getRawNodeKey(nodeID, index) == nodeID \o <<"_">> \o Itoa(index)

\* rawNodeKey[:strings.LastIndex(rawNodeKey, "_")]
getNodeID(rawNodeKey) == SubSeq(rawNodeKey, 1, LastIndex(rawNodeKey))

getValidWeight(weight) ==
    IF weight <= 0 THEN 1 ELSE IF weight >= 10 THEN 10 ELSE weight

\* every virtual-node key the bounded inputs can produce
AllVKeys ==
    UNION {{getRawNodeKey(n, i) : i \in 0..(getValidWeight(w) * OptReplicas - 1)} :
           n \in NodeIDs, w \in UNION {WeightsOf(m) : m \in NodeIDs}}
    \ {getRawNodeKey(NodeA0, 1)}

\* strings the Encryptor is applied to
HashDomain == AllVKeys \cup DataKeySet

Encrypt(s) == hash[s]

incrScore(score) == IF score = MaxInt32 - 1 THEN 0 ELSE score + 1
decrScore(score) == IF score = 0 THEN MaxInt32 - 1 ELSE score - 1

--------------------------------------------------------------------------
(* The skiplist.  A ring value h is a record                               *)
(*   root           : s.root.nexts, a sequence of pointers                  *)
(*   nodes          : the heap, virtualNode per score (a pointer is the    *)
(*                    score of its target, or NIL)                         *)
(*   nodeToReplicas, nodeToDataKey : the two maps                          *)
(* Levels are 0-based in the code and index+1 here.                        *)

EmptyRing ==
    [root |-> <<>>, nodes |-> <<>>,
     nodeToReplicas |-> <<>>, nodeToDataKey |-> <<>>]

nextsOf(h, move) == IF move = ROOT THEN h.root ELSE h.nodes[move].nexts

\* for move.nexts[level] != nil && move.nexts[level].score < score
\*     { move = move.nexts[level] }
RECURSIVE walk(_, _, _, _)
walk(h, move, level, score) ==
    LET nx == nextsOf(h, move)[level + 1]
    IN IF nx # NIL /\ h.nodes[nx].score < score
       THEN walk(h, nx, level, score)
       ELSE move

\* the descent shared by ceiling and floor: all levels, top to bottom
RECURSIVE descend(_, _, _, _)
descend(h, move, level, score) ==
    IF level < 0 THEN move
    ELSE descend(h, walk(h, move, level, score), level - 1, score)

\* get's loop over the levels, top to bottom; getAt is one level, with move
\* already walked to the last node below score
RECURSIVE getFrom(_, _, _, _)
getAt(h, move, level, score) ==
    LET nx == nextsOf(h, move)[level + 1]
    IN IF nx # NIL /\ h.nodes[nx].score = score
       THEN nx
       ELSE getFrom(h, move, level - 1, score)

getFrom(h, move, level, score) ==
    IF level < 0 THEN NIL
    ELSE getAt(h, walk(h, move, level, score), level, score)

\* get: the virtualNode of score (as a pointer), NIL when !ok
get(h, score) == getFrom(h, ROOT, Len(h.root) - 1, score)

\* (score, ok) of the node a pointer leads to
scoreOf(h, ptr) ==
    IF ptr = NIL \/ ptr = ROOT THEN [v |-> -1, ok |-> FALSE]
    ELSE [v |-> h.nodes[ptr].score, ok |-> TRUE]

ceiling(h, score) ==
    IF Len(h.root) = 0 THEN [v |-> -1, ok |-> FALSE]
    ELSE scoreOf(h, nextsOf(h, descend(h, ROOT, Len(h.root) - 1, score))[1])

first(h) ==
    IF Len(h.root) = 0 THEN [v |-> -1, ok |-> FALSE]
    ELSE [v |-> h.nodes[h.root[1]].score, ok |-> TRUE]

\* floor as it would be without lines 347-349: the slot at score itself is
\* not looked at
floorAtBelow(h, move, score) == scoreOf(h, move)

\* floor once move is the last node below score
floorAt(h, move, score) ==
    LET nx == nextsOf(h, move)[1]
    IN IF nx # NIL /\ h.nodes[nx].score = score
       THEN [v |-> score, ok |-> TRUE]
       ELSE scoreOf(h, move)

floor(h, score) ==
    IF Len(h.root) = 0 THEN [v |-> -1, ok |-> FALSE]
    ELSE floorAt(h, descend(h, ROOT, Len(h.root) - 1, score), score)

\* for move.nexts[level] != nil { move = move.nexts[level] }
RECURSIVE walkEnd(_, _, _)
walkEnd(h, move, level) ==
    LET nx == nextsOf(h, move)[level + 1]
    IN IF nx # NIL THEN walkEnd(h, nx, level) ELSE move

RECURSIVE lastFrom(_, _, _)
lastFrom(h, move, level) ==
    IF level < 0 THEN move
    ELSE lastFrom(h, walkEnd(h, move, level), level - 1)

last(h) == scoreOf(h, lastFrom(h, ROOT, Len(h.root) - 1))

\* target, ok := ...; if ok { return target }; other, _ := ...; return other
orElse(target, other) == IF target.ok THEN target.v ELSE other.v

\* Ceiling as it would be without the fallback to first(), lines 185-186
CeilingNoWrap(h, score) == ceiling(h, score).v

Ceiling(h, score) == orElse(ceiling(h, score), first(h))

Floor(h, score) == orElse(floor(h, score), last(h))

--------------------------------------------------------------------------
(* Mutating ring operations.                                              *)

setNext(h, move, level, ptr) ==
    IF move = ROOT THEN [h EXCEPT !.root[level + 1] = ptr]
    ELSE [h EXCEPT !.nodes[move].nexts[level + 1] = ptr]

\* Add's linking loop, levels rLevel down to 0; the new node is at `score`
RECURSIVE link(_, _, _, _)
\* one level of the loop, with move already walked
linkAt(h, move, level, score) ==
    link(setNext(setNext(h, score, level, nextsOf(h, move)[level + 1]),
                 move, level, score),
         move, level - 1, score)

link(h, move, level, score) ==
    IF level < 0 THEN h
    ELSE linkAt(h, walk(h, move, level, score), level, score)

\* Add, lines 154-174: no slot at score yet, so a node of rLevel + 1 levels
\* is made and linked in
newSlot(h, score, nodeID, rLevel) ==
    LET root1 == IF Len(h.root) < rLevel + 1
                 THEN h.root \o [i \in 1..(rLevel + 1 - Len(h.root)) |-> NIL]
                 ELSE h.root
        newNode == [score   |-> score,
                    nexts   |-> [i \in 1..(rLevel + 1) |-> NIL],
                    nodeIDs |-> <<nodeID>>]
    IN link([h EXCEPT !.root = root1, !.nodes = (score :> newNode) @@ h.nodes],
            ROOT, rLevel, score)

\* Add as it would be without the loop of lines 145-149: the virtual node
\* is appended to the slot's list whether it is in it or not
addAtAppend(h, score, nodeID, rLevel, targetNode) ==
    IF targetNode # NIL
    THEN [h EXCEPT !.nodes[targetNode].nodeIDs = Append(@, nodeID)]
    ELSE newSlot(h, score, nodeID, rLevel)

\* Add, lines 144-152 and on, with targetNode what get(score) found
addAt(h, score, nodeID, rLevel, targetNode) ==
    IF targetNode # NIL
    THEN IF \E i \in 1..Len(h.nodes[targetNode].nodeIDs) :
                h.nodes[targetNode].nodeIDs[i] = nodeID
         THEN h
         ELSE [h EXCEPT !.nodes[targetNode].nodeIDs = Append(@, nodeID)]
    ELSE newSlot(h, score, nodeID, rLevel)

\* Add as it would be without line 150: a score that already has a slot
\* keeps its list, and the new virtual node is dropped
AddNoAppend(h, score, nodeID, rLevel) ==
    IF get(h, score) # NIL THEN h ELSE newSlot(h, score, nodeID, rLevel)

Add(h, score, nodeID, rLevel) ==
    addAt(h, score, nodeID, rLevel, get(h, score))

\* delete(m, k) on a Go map
mapDelete(m, k) == [x \in (DOMAIN m) \ {k} |-> m[x]]

\* Rem's unlinking loop, all levels of the root, top to bottom
RECURSIVE unlink(_, _, _, _)
\* Rem's loop as it would be if it unlinked on level 0 only
unlinkAtBottom(h, move, level, score) ==
    LET nx == nextsOf(h, move)[level + 1]
    IN IF level > 0 \/ nx = NIL \/ h.nodes[nx].score > score
       THEN unlink(h, move, level - 1, score)
       ELSE unlink(setNext(h, move, level, h.nodes[nx].nexts[level + 1]),
                   move, level - 1, score)

\* one level of the loop, with move already walked
unlinkAt(h, move, level, score) ==
    LET nx == nextsOf(h, move)[level + 1]
    IN IF nx = NIL \/ h.nodes[nx].score > score
       THEN unlink(h, move, level - 1, score)
       ELSE unlink(setNext(h, move, level, h.nodes[nx].nexts[level + 1]),
                   move, level - 1, score)

unlink(h, move, level, score) ==
    IF level < 0 THEN h
    ELSE unlinkAt(h, walk(h, move, level, score), level, score)

\* Rem's trailing loop: cut s.root.nexts at its first nil level
shrinkRoot(h) ==
    LET nils == {i \in 1..Len(h.root) : h.root[i] = NIL}
    IN IF nils = {} THEN h
       ELSE LET level == (CHOOSE i \in nils : \A j \in nils : i <= j) - 1
            IN [h EXCEPT !.root = SubSeq(h.root, 1, level)]

\* the garbage collector: a virtualNode nothing points to is gone
collect(h, score) ==
    LET refs == {h.root[i] : i \in 1..Len(h.root)} \cup
                UNION {{h.nodes[s].nexts[i] : i \in 1..Len(h.nodes[s].nexts)} :
                       s \in (DOMAIN h.nodes) \ {score}}
    IN IF score \in refs THEN h
       ELSE [h EXCEPT !.nodes = mapDelete(@, score)]

removeAt(seq, index) ==
    SubSeq(seq, 1, index - 1) \o SubSeq(seq, index + 1, Len(seq))

\* Rem, lines 217-244: the virtual node is at index of targetNode's list
remAt(h, score, nodeID, targetNode, index) ==
    IF Len(h.nodes[targetNode].nodeIDs) > 1
    THEN [h |-> [h EXCEPT !.nodeToDataKey = mapDelete(@, nodeID),
                          !.nodes[targetNode].nodeIDs = removeAt(@, index)],
          err |-> ""]
    ELSE [h |-> shrinkRoot(collect(
                  unlink([h EXCEPT !.nodeToDataKey = mapDelete(@, nodeID)],
                         ROOT, Len(h.root) - 1, score),
                  score)),
          err |-> ""]

\* Rem, lines 205-215: the search for nodeID in targetNode's list
remFrom(h, score, nodeID, targetNode) ==
    IF targetNode = NIL
    THEN [h |-> h, err |-> "score not exist"]
    ELSE LET ids  == h.nodes[targetNode].nodeIDs
             hits == {i \in 1..Len(ids) : ids[i] = nodeID}
         IN IF hits = {}
            THEN [h |-> h, err |-> "node not exist in score"]
            ELSE remAt(h, score, nodeID, targetNode,
                       CHOOSE i \in hits : \A j \in hits : i <= j)

Rem(h, score, nodeID) == remFrom(h, score, nodeID, get(h, score))

Nodes(h) == h.nodeToReplicas

AddNodeToReplica(h, nodeID, replicas) ==
    [h EXCEPT !.nodeToReplicas = (nodeID :> replicas) @@ @]

DeleteNodeToReplica(h, nodeID) ==
    [h EXCEPT !.nodeToReplicas = mapDelete(@, nodeID)]

nodeIDsOf(h, targetNode) ==
    IF targetNode = NIL THEN [v |-> <<>>, err |-> "score not exist"]
    ELSE [v |-> h.nodes[targetNode].nodeIDs, err |-> ""]

Node(h, score) == nodeIDsOf(h, get(h, score))

\* a missing entry reads as a nil map, which ranges and measures as empty
DataKeys(h, nodeID) ==
    IF nodeID \in DOMAIN h.nodeToDataKey THEN h.nodeToDataKey[nodeID] ELSE {}

AddNodeToDataKeys(h, nodeID, dataKeys) ==
    [h EXCEPT !.nodeToDataKey =
                  (nodeID :> (DataKeys(h, nodeID) \cup dataKeys)) @@ @]

DeleteNodeToDataKeys(h, nodeID, dataKeys) ==
    IF nodeID \notin DOMAIN h.nodeToDataKey THEN h
    ELSE LET oldDataKeys == h.nodeToDataKey[nodeID] \ dataKeys
         IN IF oldDataKeys = {}
            THEN [h EXCEPT !.nodeToDataKey = mapDelete(@, nodeID)]
            ELSE [h EXCEPT !.nodeToDataKey[nodeID] = oldDataKeys]

--------------------------------------------------------------------------
(* The placement engine.  Every operator takes the ring h it starts from   *)
(* and returns the ring it leaves, with its results.  int32 arithmetic:    *)
(* the shifted scores stay within [-MaxInt32, MaxInt32), and TLC's         *)
(* integers are 32 bits wide and report an overflow as an error.           *)

NoNode == <<>>    \* the empty string as a node ID

\* the loop over the candidate data keys of migrateIn
inArc(dataKeys, lastScore, virtualScore, patternOne, patternTwo) ==
    {dataKey \in dataKeys :
        LET d0 == Encrypt(dataKey)
            d1 == IF patternOne /\ d0 > (lastScore + MaxInt32)
                  THEN d0 - MaxInt32 ELSE d0
            dataVirtualScore == IF patternTwo THEN d1 - MaxInt32 ELSE d1
        IN ~(dataVirtualScore <= lastScore \/ dataVirtualScore > virtualScore)}

\* what migrateIn returns when it has nothing to move
noMigration(h) ==
    [h |-> h, from |-> NoNode, to |-> NoNode, datas |-> {}, err |-> ""]

\* lines 154-163: datas leave DataKeys(from) and enter DataKeys(nodeID)
migrateInMove(h, nodeID, from, datas) ==
    [h |-> AddNodeToDataKeys(DeleteNodeToDataKeys(h, from, datas), nodeID, datas),
     from |-> from, to |-> nodeID, datas |-> datas, err |-> ""]

\* lines 117-152, with lastScore and virtualScore shifted as the patterns say
migrateInFrom(h, nodeID, lastScore, virtualScore, patternOne, patternTwo, nextNodes) ==
    IF nextNodes.err # "" THEN [noMigration(h) EXCEPT !.err = nextNodes.err]
    ELSE IF Len(nextNodes.v) = 0 THEN noMigration(h)
    ELSE migrateInMove(h, nodeID, getNodeID(nextNodes.v[1]),
                       inArc(DataKeys(h, getNodeID(nextNodes.v[1])),
                             lastScore, virtualScore, patternOne, patternTwo))

\* lines 87-114, with what Floor and Ceiling returned
migrateInScores(h, virtualScore, nodeID, lastScore, nextScore) ==
    LET patternOne == lastScore > virtualScore
        patternTwo == nextScore < virtualScore
        shift == (IF patternOne THEN MaxInt32 ELSE 0) +
                 (IF patternTwo THEN MaxInt32 ELSE 0)
    IN IF lastScore = -1 \/ lastScore = virtualScore THEN noMigration(h)
       ELSE IF nextScore = -1 \/ nextScore = virtualScore THEN noMigration(h)
       ELSE migrateInFrom(h, nodeID, lastScore - shift,
                          IF patternTwo THEN virtualScore - MaxInt32 ELSE virtualScore,
                          patternOne, patternTwo, Node(h, nextScore))

\* lines 69-77, with what Node(virtualScore) returned
migrateInNodes(h, virtualScore, nodeID, nodes) ==
    IF nodes.err # "" THEN [noMigration(h) EXCEPT !.err = nodes.err]
    ELSE IF Len(nodes.v) > 1 THEN noMigration(h)
    ELSE migrateInScores(h, virtualScore, nodeID,
                         Floor(h, decrScore(virtualScore)),
                         Ceiling(h, incrScore(virtualScore)))

migrateIn(h, virtualScore, nodeID) ==
    IF ~migrator THEN noMigration(h)
    ELSE migrateInNodes(h, virtualScore, nodeID, Node(h, virtualScore))

\* the number of getValidNextNode calls that one call makes, itself included:
\* the recursion of line 308, with the exits of lines 276-304
RECURSIVE nextCalls(_, _, _, _)
nextCallsAt(h, score, nodeID, ranged, nextScore) ==
    IF nextScore = -1 \/ nextScore \in ranged THEN 1
    ELSE IF Node(h, nextScore).err # "" \/ Len(Node(h, nextScore).v) = 0 THEN 1
    ELSE IF getNodeID(Node(h, nextScore).v[1]) # nodeID THEN 1
    ELSE IF Len(Node(h, nextScore).v) > 1 THEN 1
    ELSE 1 + nextCalls(h, nextScore, nodeID, ranged \cup {score})

nextCalls(h, score, nodeID, ranged) ==
    nextCallsAt(h, score, nodeID, ranged, Ceiling(h, incrScore(score)))

RECURSIVE getValidNextNode(_, _, _, _)
\* lines 290-308, with what Node(nextScore) returned
nextAmong(h, score, nodeID, ranged, nextScore, nextNodes) ==
    IF nextNodes.err # "" THEN [v |-> NoNode, err |-> nextNodes.err]
    ELSE IF Len(nextNodes.v) = 0 THEN [v |-> NoNode, err |-> "next node empty"]
    ELSE IF getNodeID(nextNodes.v[1]) # nodeID
         THEN [v |-> getNodeID(nextNodes.v[1]), err |-> ""]
    ELSE IF Len(nextNodes.v) > 1
         THEN [v |-> getNodeID(nextNodes.v[2]), err |-> ""]
    ELSE getValidNextNode(h, nextScore, nodeID, ranged \cup {score})

\* lines 276-285, with what Ceiling returned
nextFrom(h, score, nodeID, ranged, nextScore) ==
    IF nextScore = -1 THEN [v |-> NoNode, err |-> ""]
    ELSE IF nextScore \in ranged THEN [v |-> NoNode, err |-> ""]
    ELSE nextAmong(h, score, nodeID, ranged, nextScore, Node(h, nextScore))

getValidNextNode(h, score, nodeID, ranged) ==
    nextFrom(h, score, nodeID, ranged, Ceiling(h, incrScore(score)))

\* the loop over allDatas of migrateOut
outArc(allDatas, lastScore, virtualScore, pattern, onlyScore) ==
    {data \in allDatas :
        \/ onlyScore
        \/ LET d0 == Encrypt(data)
               dataScore == IF pattern /\ d0 > lastScore + MaxInt32
                            THEN d0 - MaxInt32 ELSE d0
           IN ~(dataScore <= lastScore \/ dataScore > virtualScore)}

\* lines 258-267, with what getValidNextNode returned; its error is
\* overwritten by _err, which is nil there
migrateOutNext(nodeID, datas, next) ==
    IF next.err # ""
    THEN [from |-> nodeID, to |-> next.v, datas |-> datas, err |-> ""]
    ELSE IF next.v = NoNode
    THEN [from |-> nodeID, to |-> NoNode, datas |-> datas, err |-> "no other node"]
    ELSE [from |-> nodeID, to |-> next.v, datas |-> datas, err |-> ""]

\* lines 252-261, with the datas of the arc
migrateOutTo(h, virtualScore, nodeID, nodes, datas) ==
    IF Len(nodes.v) > 1
    THEN [from |-> nodeID, to |-> getNodeID(nodes.v[2]), datas |-> datas, err |-> ""]
    ELSE migrateOutNext(nodeID, datas, getValidNextNode(h, virtualScore, nodeID, {}))

\* lines 221-249, with what Floor returned
migrateOutScores(h, virtualScore, nodeID, nodes, allDatas, lastScore) ==
    LET onlyScore == lastScore = -1 \/ lastScore = virtualScore
        pattern == lastScore > virtualScore
    IN IF onlyScore /\ Len(nodes.v) = 1
       THEN [from |-> nodeID, to |-> NoNode, datas |-> {}, err |-> "no other no"]
       ELSE migrateOutTo(h, virtualScore, nodeID, nodes,
                         outArc(allDatas,
                                IF pattern THEN lastScore - MaxInt32 ELSE lastScore,
                                virtualScore, pattern, onlyScore))

\* lines 190-215, with what Node(virtualScore) returned
migrateOutNodes(h, virtualScore, nodeID, nodes) ==
    IF nodes.err # ""
    THEN [from |-> nodeID, to |-> NoNode, datas |-> {}, err |-> nodes.err]
    ELSE IF Len(nodes.v) = 0 \/ getNodeID(nodes.v[1]) # nodeID
            \/ DataKeys(h, nodeID) = {}
    THEN [from |-> nodeID, to |-> NoNode, datas |-> {}, err |-> ""]
    ELSE migrateOutScores(h, virtualScore, nodeID, nodes, DataKeys(h, nodeID),
                          Floor(h, decrScore(virtualScore)))

\* the body of migrateOut up to its return: [from, to, datas, err]
migrateOutBody(h, virtualScore, nodeID) ==
    migrateOutNodes(h, virtualScore, nodeID, Node(h, virtualScore))

\* the deferred function of migrateOut, lines 172-185, on what the body
\* returned
migrateOutDefer(h, nodeID, r) ==
    IF r.err # "" \/ r.to = NoNode \/ r.datas = {}
    THEN [h |-> h, from |-> r.from, to |-> r.to, datas |-> r.datas, err |-> r.err]
    ELSE [h |-> AddNodeToDataKeys(DeleteNodeToDataKeys(h, nodeID, r.datas),
                                  r.to, r.datas),
          from |-> r.from, to |-> r.to, datas |-> r.datas, err |-> ""]

migrateOut(h, virtualScore, nodeID) ==
    IF ~migrator THEN noMigration(h)
    ELSE migrateOutDefer(h, nodeID, migrateOutBody(h, virtualScore, nodeID))

\* GetNode, lines 211-227, with what Node(ceilingScore) returned
getNodeAmong(h, dataKey, nodes) ==
    IF nodes.err # "" THEN [h |-> h, v |-> NoNode, err |-> nodes.err]
    ELSE IF Len(nodes.v) = 0
         THEN [h |-> h, v |-> NoNode, err |-> "no node available with empty score"]
    ELSE [h |-> AddNodeToDataKeys(h, getNodeID(nodes.v[1]), {dataKey}),
          v |-> nodes.v[1], err |-> ""]

\* GetNode as it would be without lines 207-209: the score -1 of an empty
\* ring is looked up like any other
getNodeAtAny(h, dataKey, ceilingScore) ==
    getNodeAmong(h, dataKey, Node(h, ceilingScore))

\* GetNode, lines 207-211, with what Ceiling returned
getNodeAt(h, dataKey, ceilingScore) ==
    IF ceilingScore = -1
    THEN [h |-> h, v |-> NoNode, err |-> "no node available"]
    ELSE getNodeAmong(h, dataKey, Node(h, ceilingScore))

\* GetNode between Lock and the deferred Unlock
GetNode(h, dataKey) == getNodeAt(h, dataKey, Ceiling(h, Encrypt(dataKey)))

\* a migrateTasks entry: the arguments its closure passes to c.migrator
task(m) == [from |-> m.from, to |-> m.to, keys |-> m.datas]

\* AddNode's loop from index i on; levels[i+1] is what roll() returns if
\* Add creates a slot for virtual node i
RECURSIVE addLoop(_, _, _, _, _, _)
\* lines 80-92, with what migrateIn returned
addMigrated(nodeID, replicas, i, levels, migrateTasks, m) ==
    IF m.err # "" THEN [h |-> m.h, err |-> m.err, tasks |-> migrateTasks]
    ELSE addLoop(m.h, nodeID, replicas, i + 1, levels,
                 IF m.datas = {} THEN migrateTasks
                 ELSE Append(migrateTasks, task(m)))

\* lines 67-79, for the virtual node nodeKey
addVirtual(h, nodeID, replicas, i, levels, migrateTasks, nodeKey) ==
    addMigrated(nodeID, replicas, i, levels, migrateTasks,
                migrateIn(Add(h, Encrypt(nodeKey), nodeKey, levels[i + 1]),
                          Encrypt(nodeKey), nodeID))

addLoop(h, nodeID, replicas, i, levels, migrateTasks) ==
    IF i >= replicas THEN [h |-> h, err |-> "", tasks |-> migrateTasks]
    ELSE addVirtual(h, nodeID, replicas, i, levels, migrateTasks,
                    getRawNodeKey(nodeID, i))

\* AddNode as it would be without the loop of lines 51-55: a node already
\* in Nodes() is added again
AddNodeAgain(h, nodeID, weight, levels) ==
    addLoop(AddNodeToReplica(h, nodeID, getValidWeight(weight) * OptReplicas),
            nodeID, getValidWeight(weight) * OptReplicas, 0, levels, <<>>)

\* AddNode between Lock and batchExecuteMigrator
AddNode(h, nodeID, weight, levels) ==
    IF nodeID \in DOMAIN Nodes(h)
    THEN [h |-> h, err |-> "repeat node", tasks |-> <<>>]
    ELSE addLoop(AddNodeToReplica(h, nodeID, getValidWeight(weight) * OptReplicas),
                 nodeID, getValidWeight(weight) * OptReplicas, 0, levels, <<>>)

\* RemoveNode's loop from index i on
RECURSIVE removeLoop(_, _, _, _, _)
\* lines 150-161, with what migrateOut and Rem returned
removeRemoved(nodeID, replicas, i, migrateTasks, m, r) ==
    IF r.err # "" THEN [h |-> r.h, err |-> r.err, tasks |-> migrateTasks]
    ELSE removeLoop(r.h, nodeID, replicas, i + 1,
                    IF m.datas = {} THEN migrateTasks
                    ELSE Append(migrateTasks, task(m)))

\* lines 144-150, with what migrateOut returned
removeMigrated(nodeID, replicas, i, migrateTasks, nodeKey, m) ==
    IF m.err # "" THEN [h |-> m.h, err |-> m.err, tasks |-> migrateTasks]
    ELSE removeRemoved(nodeID, replicas, i, migrateTasks, m,
                       Rem(m.h, Encrypt(nodeKey), nodeKey))

\* lines 142-144, for the virtual node nodeKey
removeVirtual(h, nodeID, replicas, i, migrateTasks, nodeKey) ==
    removeMigrated(nodeID, replicas, i, migrateTasks, nodeKey,
                   migrateOut(h, Encrypt(nodeKey), nodeID))

removeLoop(h, nodeID, replicas, i, migrateTasks) ==
    IF i >= replicas THEN [h |-> h, err |-> "", tasks |-> migrateTasks]
    ELSE removeVirtual(h, nodeID, replicas, i, migrateTasks,
                       getRawNodeKey(nodeID, i))

\* what getValidNextNode returns when the HashRing's Ceiling or Node call
\* fails, lines 273-275 and 287-289
nextFails == [v |-> NoNode, err |-> "backend error"]

\* migrateOut reaches its getValidNextNode call, line 258: the slot holds
\* one vkey, nodeID's, nodeID has data keys and the slot is not the only one
reachesNext(h, virtualScore, nodeID) ==
    /\ migrator
    /\ Node(h, virtualScore).err = ""
    /\ Len(Node(h, virtualScore).v) = 1
    /\ getNodeID(Node(h, virtualScore).v[1]) = nodeID
    /\ DataKeys(h, nodeID) # {}
    /\ migrateOutBody(h, virtualScore, nodeID).err # "no other no"

\* migrateOut on a HashRing whose call fails inside getValidNextNode: the
\* body up to line 257 as on any ring, lines 258-261 on the failure, then
\* the deferred function
migrateOutNextFails(h, virtualScore, nodeID) ==
    migrateOutDefer(h, nodeID,
                    migrateOutNext(nodeID,
                                   migrateOutBody(h, virtualScore, nodeID).datas,
                                   nextFails))

\* RemoveNode's loop from index i on, lines 140-163, when that failure
\* happens in iteration i and the HashRing answers again afterwards
removeLoopNextFails(h, nodeID, replicas, i) ==
    removeMigrated(nodeID, replicas, i, <<>>, getRawNodeKey(nodeID, i),
                   migrateOutNextFails(h, Encrypt(getRawNodeKey(nodeID, i)), nodeID))

\* RemoveNode as it would be without lines 130-132: for a node that is not
\* in Nodes(), replicas keeps its zero value and the loop does nothing
RemoveNodeUnknown(h, nodeID) ==
    removeLoop(DeleteNodeToReplica(h, nodeID), nodeID,
               IF nodeID \in DOMAIN Nodes(h) THEN Nodes(h)[nodeID] ELSE 0,
               0, <<>>)

\* RemoveNode between Lock and batchExecuteMigrator
RemoveNode(h, nodeID) ==
    IF nodeID \notin DOMAIN Nodes(h)
    THEN [h |-> h, err |-> "invalid node id", tasks |-> <<>>]
    ELSE removeLoop(DeleteNodeToReplica(h, nodeID), nodeID,
                    Nodes(h)[nodeID], 0, <<>>)

--------------------------------------------------------------------------
(* The lock of the skiplist ring: LockEntity, Lock, unlock, Unlock and the *)
(* expiry goroutine that Lock starts, as steps of concurrent callers.      *)
(* A step is what a goroutine does between two points where it can block   *)
(* (a sync.Mutex Lock, the select of the expiry goroutine).  After         *)
(* s.lock.Lock() returns, Lock runs to its return holding doubleLock, and  *)
(* unlock runs from s.doubleLock.Lock() to its return holding doubleLock;  *)
(* owner and cancel are only touched there, so each is one step.           *)

\* goroutines calling into the ring; GetCurrentProcessAndGogroutineIDStr()
\* gives each its own token, here the caller's name
Callers == {"g1", "g2"}
Free == "free"

\* Lock calls made in one run; each gets the next acquisition number
MaxAcq == 3

Acqs == 1..MaxAcq

\* the expireSeconds a caller passes: none (<= 0) or some (> 0)
ExpireSeconds == {0, 1}

NoTimer == [state |-> "none", token |-> ""]
\* what a caller is in the middle of: the call, its arguments, the
\* acquisition its Lock gets, and for AddNode / RemoveNode the migrateTasks
\* it built (todo: those batchExecuteMigrator has not started yet; failed:
\* whether the migrator returned an error or panicked in one of them)
NoOp == [name |-> "none", expireSeconds |-> 0, acq |-> 0, arg |-> <<>>,
         tasks |-> <<>>, todo |-> {}, failed |-> FALSE, err |-> ""]

LockIdle ==
    /\ lock = FALSE
    /\ doubleLock = Free
    /\ owner = ""
    /\ cancel = 0
    /\ timer = [a \in Acqs |-> NoTimer]
    /\ elapsed = [a \in Acqs |-> FALSE]
    /\ cancelled = [a \in Acqs |-> FALSE]
    /\ pc = [c \in Callers |-> "idle"]
    /\ held = [c \in Callers |-> 0]
    /\ nacq = 0

OpIdle ==
    /\ op = [c \in Callers |-> NoOp]
    /\ running = [c \in Callers |-> {}]

\* Lock, line 92: the caller has taken s.doubleLock and goes on to s.lock
LockDoubleLock(c) ==
    /\ pc[c] = "Lock:doubleLock"
    /\ doubleLock = Free
    /\ doubleLock' = c
    /\ pc' = [pc EXCEPT ![c] = "Lock:lock"]
    /\ UNCHANGED <<lock, owner, cancel, timer, elapsed, cancelled, held, nacq>>

\* Lock, lines 95-114 and the deferred doubleLock.Unlock(): s.lock is taken,
\* the token stored, and for expireSeconds > 0 the cancel function replaced
\* and the expiry goroutine started; then Lock returns nil
LockLock(c, next) ==
    /\ pc[c] = "Lock:lock"
    /\ lock = FALSE
    /\ lock' = TRUE
    /\ owner' = c
    /\ IF op[c].expireSeconds <= 0
       THEN UNCHANGED <<cancel, timer>>
       ELSE /\ cancel' = op[c].acq
            /\ timer' = [timer EXCEPT ![op[c].acq] = [state |-> "select", token |-> c]]
    /\ doubleLock' = Free
    /\ held' = [held EXCEPT ![c] = op[c].acq]
    /\ pc' = [pc EXCEPT ![c] = next]
    /\ UNCHANGED <<elapsed, cancelled, nacq>>

\* unlock as it would be without lines 123-125: any token releases the lock
unlockAnyToken(token) ==
    [err |-> "", lock |-> FALSE, owner |-> "",
     cancelled |-> IF cancel # 0
                   THEN [cancelled EXCEPT ![cancel] = TRUE]
                   ELSE cancelled]

\* unlock, lines 119-134, by whoever presents the token: what it returns and
\* what it leaves in [lock, owner, cancelled]
unlock(token) ==
    IF owner # token
    THEN [err |-> "not your lock", lock |-> lock, owner |-> owner,
          cancelled |-> cancelled]
    ELSE [err |-> "", lock |-> FALSE, owner |-> "",
          cancelled |-> IF cancel # 0
                        THEN [cancelled EXCEPT ![cancel] = TRUE]
                        ELSE cancelled]

\* Unlock, lines 137-140: the caller gets s.doubleLock and runs unlock
UnlockDoubleLock(c, next) ==
    /\ pc[c] = "Unlock:doubleLock"
    /\ doubleLock = Free
    /\ \E r \in {unlock(c)} :
          /\ lock' = r.lock
          /\ owner' = r.owner
          /\ cancelled' = r.cancelled
    /\ held' = [held EXCEPT ![c] = 0]
    /\ pc' = [pc EXCEPT ![c] = next]
    /\ UNCHANGED <<doubleLock, cancel, timer, elapsed, nacq>>

\* time.After(expireSeconds) of acquisition a delivers
TimeAfter(a) ==
    /\ timer[a].state = "select"
    /\ ~elapsed[a]
    /\ elapsed' = [elapsed EXCEPT ![a] = TRUE]
    /\ UNCHANGED <<lock, doubleLock, owner, cancel, timer, cancelled, pc, held, nacq>>

\* the select of line 107 takes case <-cctx.Done() and the goroutine ends
SelectDone(a) ==
    /\ timer[a].state = "select"
    /\ cancelled[a]
    /\ timer' = [timer EXCEPT ![a].state = "done"]
    /\ UNCHANGED <<lock, doubleLock, owner, cancel, elapsed, cancelled, pc, held, nacq>>

\* the select takes case <-time.After(...): the goroutine calls s.unlock
\* and is at s.doubleLock.Lock().  With both channels ready select takes
\* either case
SelectTimeAfter(a) ==
    /\ timer[a].state = "select"
    /\ elapsed[a]
    /\ timer' = [timer EXCEPT ![a].state = "unlock"]
    /\ UNCHANGED <<lock, doubleLock, owner, cancel, elapsed, cancelled, pc, held, nacq>>

\* the expiry goroutine gets s.doubleLock and runs unlock with the token
\* its Lock call captured
TimerUnlock(a) ==
    /\ timer[a].state = "unlock"
    /\ doubleLock = Free
    /\ \E r \in {unlock(timer[a].token)} :
          /\ lock' = r.lock
          /\ owner' = r.owner
          /\ cancelled' = r.cancelled
    /\ timer' = [timer EXCEPT ![a].state = "done"]
    /\ UNCHANGED <<doubleLock, cancel, elapsed, pc, held, nacq>>

\* the steps of the expiry goroutines
TimerStep ==
    \E a \in Acqs : TimeAfter(a) \/ SelectDone(a) \/ SelectTimeAfter(a) \/ TimerUnlock(a)

--------------------------------------------------------------------------
(* SpecLock: two goroutines call Lock(expireSeconds) and Unlock on one     *)
(* SkiplistHashRing, in any order and at any time, while the expiry        *)
(* goroutines of earlier Lock calls run.  The ring itself is not touched.  *)

NoRet == [op |-> "none", err |-> ""]

LockInit ==
    /\ hr = EmptyRing
    /\ hash = [s \in HashDomain |-> 0]
    /\ migrator = FALSE
    /\ ret = NoRet
    /\ registered = {}
    /\ orphaned = {}
    /\ ncalls = 0
    /\ LockIdle
    /\ OpIdle

\* a goroutine calls Lock(expireSeconds) and is at s.doubleLock.Lock()
CallLock(c, expireSeconds) ==
    /\ pc[c] = "idle"
    /\ nacq < MaxAcq
    /\ nacq' = nacq + 1
    /\ op' = [op EXCEPT ![c] = [NoOp EXCEPT !.name = "Lock",
                                             !.expireSeconds = expireSeconds,
                                             !.acq = nacq + 1]]
    /\ pc' = [pc EXCEPT ![c] = "Lock:doubleLock"]
    /\ UNCHANGED <<lock, doubleLock, owner, cancel, timer, elapsed, cancelled, held>>
    /\ UNCHANGED <<running>>
    /\ UNCHANGED ringVars

LockTakesDoubleLock(c) ==
    /\ LockDoubleLock(c)
    /\ UNCHANGED opVars
    /\ UNCHANGED ringVars

LockReturns(c) ==
    /\ op[c].name = "Lock"
    /\ LockLock(c, "idle")
    /\ ret' = [op |-> "Lock", err |-> ""]
    /\ op' = [op EXCEPT ![c] = NoOp]
    /\ UNCHANGED <<hr, hash, migrator, registered, orphaned, ncalls, running>>

\* a goroutine calls Unlock() and is at s.doubleLock.Lock()
CallUnlock(c) ==
    /\ pc[c] = "idle"
    /\ op' = [op EXCEPT ![c] = [NoOp EXCEPT !.name = "Unlock"]]
    /\ pc' = [pc EXCEPT ![c] = "Unlock:doubleLock"]
    /\ UNCHANGED <<lock, doubleLock, owner, cancel, timer, elapsed, cancelled, held, nacq>>
    /\ UNCHANGED <<running>>
    /\ UNCHANGED ringVars

UnlockReturns(c) ==
    /\ op[c].name = "Unlock"
    /\ ret' = [op |-> "Unlock", err |-> unlock(c).err]
    /\ UnlockDoubleLock(c, "idle")
    /\ op' = [op EXCEPT ![c] = NoOp]
    /\ UNCHANGED <<hr, hash, migrator, registered, orphaned, ncalls, running>>

ExpiryGoroutine ==
    /\ TimerStep
    /\ UNCHANGED opVars
    /\ UNCHANGED ringVars

LockNext ==
    \/ \E c \in Callers : \E e \in ExpireSeconds : CallLock(c, e)
    \/ \E c \in Callers : LockTakesDoubleLock(c)
    \/ \E c \in Callers : LockReturns(c)
    \/ \E c \in Callers : CallUnlock(c)
    \/ \E c \in Callers : UnlockReturns(c)
    \/ ExpiryGoroutine

SpecLock == LockInit /\ [][LockNext]_vars

\* SpecLock with the Go scheduler's progress: a goroutine that can take a
\* mutex that stays free takes it, a call that can return returns, a timer
\* that was started delivers, and an expiry goroutine that can move moves.
\* Nothing obliges a goroutine to call Lock or Unlock
LockFairness ==
    /\ \A c \in Callers : WF_vars(LockTakesDoubleLock(c))
    /\ \A c \in Callers : WF_vars(LockReturns(c))
    /\ \A c \in Callers : WF_vars(UnlockReturns(c))
    /\ WF_vars(ExpiryGoroutine)

SpecLockFair == LockInit /\ [][LockNext]_vars /\ LockFairness

--------------------------------------------------------------------------
(* SpecRing: AddNode, RemoveNode and GetNode called one at a time on one   *)
(* engine, for every Encryptor over the bounded strings and scores, with   *)
(* and without a migrator.  A call is one step: the lock is free before    *)
(* it and free after it, and nothing else runs in between.                 *)

RingInit ==
    /\ hr = EmptyRing
    \* data keys are interchangeable: taking hash(x) <= hash(y) loses nothing
    /\ hash \in {f \in [HashDomain -> Scores] : f[KeyX] <= f[KeyY]}
    /\ migrator \in BOOLEAN
    /\ ret = NoRet
    /\ registered = {}
    /\ orphaned = {}
    /\ ncalls = 0
    /\ LockIdle
    /\ OpIdle

NoOtherNodeErrs == {"no other no", "no other node"}

CallAddNode(nodeID, weight, levels) ==
    \E r \in {AddNode(hr, nodeID, weight, levels)} :
       /\ ncalls < MaxCalls
       /\ ncalls' = ncalls + 1
       /\ hr' = r.h
       /\ ret' = [op |-> "AddNode", err |-> r.err]
       /\ UNCHANGED <<hash, migrator, registered, orphaned>>
       /\ UNCHANGED lockVars
       /\ UNCHANGED opVars

CallRemoveNode(nodeID) ==
    \E r \in {RemoveNode(hr, nodeID)} :
       /\ ncalls < MaxCalls
       /\ ncalls' = ncalls + 1
       /\ hr' = r.h
       /\ ret' = [op |-> "RemoveNode", err |-> r.err]
       /\ orphaned' = IF r.err \in NoOtherNodeErrs
                      THEN orphaned \cup DataKeys(hr, nodeID)
                      ELSE orphaned
       /\ UNCHANGED <<hash, migrator, registered>>
       /\ UNCHANGED lockVars
       /\ UNCHANGED opVars

CallGetNode(dataKey) ==
    \E r \in {GetNode(hr, dataKey)} :
       /\ ncalls < MaxCalls
       /\ ncalls' = ncalls + 1
       /\ hr' = r.h
       /\ ret' = [op |-> "GetNode", err |-> r.err]
       /\ registered' = IF r.err = "" THEN registered \cup {dataKey}
                        ELSE registered
       /\ UNCHANGED <<hash, migrator, orphaned>>
       /\ UNCHANGED lockVars
       /\ UNCHANGED opVars

\* what roll() may return for the virtual nodes of one AddNode; it is not
\* called when the node is a repeat
Rolls(nodeID, weight) ==
    IF nodeID \in DOMAIN Nodes(hr)
    THEN {[i \in 1..(getValidWeight(weight) * OptReplicas) |-> 0]}
    ELSE [1..(getValidWeight(weight) * OptReplicas) -> 0..MaxLevel]

RingNext ==
    \/ \E nodeID \in NodeIDs : \E weight \in WeightsOf(nodeID) :
         \E levels \in Rolls(nodeID, weight) :
            CallAddNode(nodeID, weight, levels)
    \/ \E nodeID \in NodeIDs : CallRemoveNode(nodeID)
    \/ \E dataKey \in DataKeySet : CallGetNode(dataKey)

SpecRing == RingInit /\ [][RingNext]_vars

--------------------------------------------------------------------------
(* SpecOps: two goroutines call AddNode, RemoveNode and GetNode on one     *)
(* engine over one skiplist ring at any time.  A call is Lock (two steps), *)
(* the work between Lock and batchExecuteMigrator (one step), the migrator *)
(* tasks of batchExecuteMigrator, each started and ended in steps of their *)
(* own, wg.Wait, and the deferred Unlock.  The expiry goroutines of the    *)
(* Lock calls run alongside.                                               *)

\* opts.lockExpireSeconds after repair, with no WithLockExpireSeconds option
lockExpireSeconds == 15

\* the Encryptor of SpecOps: node "a_0" sits at score 1, the virtual nodes
\* of "a" at 0 and at the top score, data key "x" at 0 and "y" at 1
OpsHash ==
    [s \in HashDomain |->
        IF s \in {getRawNodeKey(NodeA, 0), KeyX} THEN 0
        ELSE IF s \in {getRawNodeKey(NodeA0, 0), KeyY} THEN 1
        ELSE MaxInt32 - 1]

OpsInit ==
    /\ hr = EmptyRing
    /\ hash = OpsHash
    /\ migrator = TRUE
    /\ ret = NoRet
    /\ registered = {}
    /\ orphaned = {}
    /\ ncalls = 0
    /\ LockIdle
    /\ OpIdle

EngineCalls == {"AddNode", "RemoveNode", "GetNode"}

\* the arguments of the calls made; GetNode is asked for "x"
OpsArgs(name) ==
    CASE name = "AddNode"    -> UNION {{<<nodeID, weight>> : weight \in WeightsOf(nodeID)} :
                                         nodeID \in NodeIDs}
      [] name = "RemoveNode" -> {<<nodeID>> : nodeID \in NodeIDs}
      [] name = "GetNode"    -> {<<KeyX>>}

\* a goroutine calls AddNode, RemoveNode or GetNode, which calls
\* c.hashRing.Lock(ctx, c.opts.lockExpireSeconds)
CallEngine(c, name, arg) ==
    /\ pc[c] = "idle"
    /\ nacq < MaxAcq
    /\ nacq' = nacq + 1
    /\ op' = [op EXCEPT ![c] = [NoOp EXCEPT !.name = name, !.arg = arg,
                                             !.expireSeconds = lockExpireSeconds,
                                             !.acq = nacq + 1]]
    /\ pc' = [pc EXCEPT ![c] = "Lock:doubleLock"]
    /\ UNCHANGED <<lock, doubleLock, owner, cancel, timer, elapsed, cancelled, held>>
    /\ UNCHANGED <<running>>
    /\ UNCHANGED ringVars

\* Lock returns nil to the engine call, which goes on
EngineLocked(c) ==
    /\ op[c].name \in EngineCalls
    /\ LockLock(c, "body")
    /\ UNCHANGED opVars
    /\ UNCHANGED ringVars

\* what roll() returns in SpecOps: level 0 for every slot created (SpecRing
\* takes every level)
OpsLevels == [i \in 1..(10 * OptReplicas) |-> 0]

\* GetNode builds no migrateTasks
noTasks(r) == [h |-> r.h, err |-> r.err, tasks |-> <<>>]

\* what the call does to the ring between Lock and batchExecuteMigrator
EngineBody(c, levels) ==
    CASE op[c].name = "AddNode" ->
            AddNode(hr, op[c].arg[1], op[c].arg[2], levels)
      [] op[c].name = "RemoveNode" ->
            RemoveNode(hr, op[c].arg[1])
      [] op[c].name = "GetNode" ->
            noTasks(GetNode(hr, op[c].arg[1]))

\* the body of the call as it would be if Unlock were called before the
\* final return only, not deferred: an error return leaves without it
EngineWorksNoDefer(c) ==
    /\ pc[c] = "body"
    /\ \E r \in {EngineBody(c, OpsLevels)} :
          /\ hr' = r.h
          /\ op' = [op EXCEPT ![c].err = r.err, ![c].tasks = r.tasks,
                              ![c].todo = 1..Len(r.tasks)]
          /\ pc' = [pc EXCEPT ![c] = IF r.err # "" THEN "idle"
                                     ELSE IF op[c].name = "GetNode"
                                     THEN "Unlock:doubleLock"
                                     ELSE "batchExecuteMigrator"]
          /\ registered' = IF op[c].name = "GetNode" /\ r.err = ""
                           THEN registered \cup {op[c].arg[1]}
                           ELSE registered
          /\ orphaned' = IF op[c].name = "RemoveNode" /\ r.err \in NoOtherNodeErrs
                         THEN orphaned \cup DataKeys(hr, op[c].arg[1])
                         ELSE orphaned
    /\ UNCHANGED <<hash, migrator, ret, ncalls, running>>
    /\ UNCHANGED <<lock, doubleLock, owner, cancel, timer, elapsed, cancelled, held, nacq>>

\* the body of the call; an error return and GetNode go straight to the
\* deferred Unlock, AddNode and RemoveNode to batchExecuteMigrator
EngineWorks(c) ==
    /\ pc[c] = "body"
    /\ \E r \in {EngineBody(c, OpsLevels)} :
          /\ hr' = r.h
          /\ op' = [op EXCEPT ![c].err = r.err, ![c].tasks = r.tasks,
                              ![c].todo = 1..Len(r.tasks)]
          /\ pc' = [pc EXCEPT ![c] = IF r.err # "" \/ op[c].name = "GetNode"
                                     THEN "Unlock:doubleLock"
                                     ELSE "batchExecuteMigrator"]
          /\ registered' = IF op[c].name = "GetNode" /\ r.err = ""
                           THEN registered \cup {op[c].arg[1]}
                           ELSE registered
          /\ orphaned' = IF op[c].name = "RemoveNode" /\ r.err \in NoOtherNodeErrs
                         THEN orphaned \cup DataKeys(hr, op[c].arg[1])
                         ELSE orphaned
    /\ UNCHANGED <<hash, migrator, ret, ncalls, running>>
    /\ UNCHANGED <<lock, doubleLock, owner, cancel, timer, elapsed, cancelled, held, nacq>>

\* batchExecuteMigrator, lines 177-185: the goroutine of task i runs
\* migrateTask(), that is c.migrator(ctx, datas, from, to)
MigratorStarts(c, i) ==
    /\ pc[c] = "batchExecuteMigrator"
    /\ i \in op[c].todo
    /\ op' = [op EXCEPT ![c].todo = @ \ {i}]
    /\ running' = [running EXCEPT ![c] = @ \cup {i}]
    /\ UNCHANGED lockVars
    /\ UNCHANGED ringVars

\* how a call of the migrator callback ends
MigratorOutcomes == {"nil", "error", "panic"}

\* batchExecuteMigrator as it would be if a failed task made the call fail
MigratorEndsFailing(c, i) ==
    /\ i \in running[c]
    /\ running' = [running EXCEPT ![c] = @ \ {i}]
    /\ \E outcome \in MigratorOutcomes :
          op' = [op EXCEPT ![c].failed = @ \/ outcome # "nil",
                           ![c].err = IF outcome # "nil" THEN "migrate fail" ELSE @]
    /\ UNCHANGED lockVars
    /\ UNCHANGED ringVars

\* the migrator of task i returns nil or an error, or panics; the error is
\* dropped (the closure is _ = c.migrator(...)), the panic recovered, and
\* wg.Done() runs
MigratorEnds(c, i) ==
    /\ i \in running[c]
    /\ running' = [running EXCEPT ![c] = @ \ {i}]
    /\ \E outcome \in MigratorOutcomes :
          op' = [op EXCEPT ![c].failed = @ \/ outcome # "nil"]
    /\ UNCHANGED lockVars
    /\ UNCHANGED ringVars

\* batchExecuteMigrator as it would be without wg.Wait() at line 187: it
\* returns once every goroutine is started
WaitReturnsAtOnce(c) ==
    /\ pc[c] = "batchExecuteMigrator"
    /\ op[c].todo = {}
    /\ pc' = [pc EXCEPT ![c] = "Unlock:doubleLock"]
    /\ UNCHANGED <<lock, doubleLock, owner, cancel, timer, elapsed, cancelled, held, nacq>>
    /\ UNCHANGED opVars
    /\ UNCHANGED ringVars

\* wg.Wait() returns, the call returns nil and its deferred Unlock starts
WaitReturns(c) ==
    /\ pc[c] = "batchExecuteMigrator"
    /\ op[c].todo = {}
    /\ running[c] = {}
    /\ pc' = [pc EXCEPT ![c] = "Unlock:doubleLock"]
    /\ UNCHANGED <<lock, doubleLock, owner, cancel, timer, elapsed, cancelled, held, nacq>>
    /\ UNCHANGED opVars
    /\ UNCHANGED ringVars

\* the deferred Unlock, whose error is dropped; the call returns
EngineReturns(c) ==
    /\ op[c].name \in EngineCalls
    /\ UnlockDoubleLock(c, "idle")
    /\ ret' = [op |-> op[c].name, err |-> op[c].err]
    /\ op' = [op EXCEPT ![c] = NoOp]
    /\ UNCHANGED <<hr, hash, migrator, registered, orphaned, ncalls, running>>

OpsNext ==
    \/ \E c \in Callers : \E name \in EngineCalls : \E arg \in OpsArgs(name) :
          CallEngine(c, name, arg)
    \/ \E c \in Callers : LockTakesDoubleLock(c)
    \/ \E c \in Callers : EngineLocked(c)
    \/ \E c \in Callers : EngineWorks(c)
    \/ \E c \in Callers : \E i \in 1..Len(op[c].tasks) : MigratorStarts(c, i)
    \/ \E c \in Callers : \E i \in 1..Len(op[c].tasks) : MigratorEnds(c, i)
    \/ \E c \in Callers : WaitReturns(c)
    \/ \E c \in Callers : EngineReturns(c)
    \/ ExpiryGoroutine

SpecOps == OpsInit /\ [][OpsNext]_vars

---------------------------------------------------------------------------
(* SpecBatch: one engine whose first calls are made one at a time, each    *)
(* one step as in SpecRing, and on which a goroutine then makes calls      *)
(* that are followed step by step as in SpecOps, so that calls with two    *)
(* migrateTasks entries are reached.                                       *)

\* the Encryptor of SpecBatch: the virtual nodes of "a" at 0 and 1, node
\* "a_0" at the top score, data key "x" at 0 and "y" at 1
BatchHash ==
    [s \in HashDomain |->
        IF s \in {getRawNodeKey(NodeA, 0), KeyX} THEN 0
        ELSE IF s \in {getRawNodeKey(NodeA, 1), KeyY} THEN 1
        ELSE MaxInt32 - 1]

\* the goroutine whose calls are followed step by step
Worker == "g1"

BatchInit ==
    /\ hr = EmptyRing
    /\ hash = BatchHash
    /\ migrator = TRUE
    /\ ret = NoRet
    /\ registered = {}
    /\ orphaned = {}
    /\ ncalls = 0
    /\ LockIdle
    /\ OpIdle

\* the calls made before the worker starts, with nothing else running
FirstAddNode(nodeID, weight) ==
    nacq = 0 /\ CallAddNode(nodeID, weight, OpsLevels)

FirstRemoveNode(nodeID) ==
    nacq = 0 /\ CallRemoveNode(nodeID)

FirstGetNode(dataKey) ==
    nacq = 0 /\ CallGetNode(dataKey)

BatchNext ==
    \/ \E nodeID \in NodeIDs : \E weight \in WeightsOf(nodeID) :
          FirstAddNode(nodeID, weight)
    \/ \E nodeID \in NodeIDs : FirstRemoveNode(nodeID)
    \/ \E dataKey \in DataKeySet : FirstGetNode(dataKey)
    \/ \E name \in {"AddNode", "RemoveNode"} : \E arg \in OpsArgs(name) :
          CallEngine(Worker, name, arg)
    \/ LockTakesDoubleLock(Worker)
    \/ EngineLocked(Worker)
    \/ EngineWorks(Worker)
    \/ \E i \in 1..Len(op[Worker].tasks) : MigratorStarts(Worker, i)
    \/ \E i \in 1..Len(op[Worker].tasks) : MigratorEnds(Worker, i)
    \/ WaitReturns(Worker)
    \/ EngineReturns(Worker)
    \/ ExpiryGoroutine

SpecBatch == BatchInit /\ [][BatchNext]_vars

--------------------------------------------------------------------------
(* SpecSkip: the exported methods of SkiplistHashRing called directly, one *)
(* at a time: Add with every level roll() may return, Rem, and             *)
(* AddNodeToDataKeys.  ret keeps the arguments of the last call, and      *)
(* whether what it was to add was there already: Add returned at line 148, *)
(* AddNodeToDataKeys stored no new key.                                    *)

\* ring calls in one run of SpecSkip
MaxSkipCalls == 5

\* a ring call is made and counted
SkipCall == ncalls < MaxSkipCalls /\ ncalls' = ncalls + 1

SkipInit ==
    /\ hr = EmptyRing
    /\ hash = [s \in HashDomain |-> 0]
    /\ migrator = FALSE
    /\ ret = [op |-> "none", err |-> "", arg |-> <<>>, found |-> FALSE]
    /\ registered = {}
    /\ orphaned = {}
    /\ ncalls = 0
    /\ LockIdle
    /\ OpIdle

SkipAdd(score, nodeID, rLevel) ==
    /\ hr' = Add(hr, score, nodeID, rLevel)
    /\ ret' = [op |-> "Add", err |-> "", arg |-> <<score, nodeID>>,
               found |-> Add(hr, score, nodeID, rLevel) = hr]
    /\ SkipCall
    /\ UNCHANGED <<hash, migrator, registered, orphaned>>
    /\ UNCHANGED lockVars
    /\ UNCHANGED opVars

SkipRem(score, nodeID) ==
    /\ \E r \in {Rem(hr, score, nodeID)} :
          /\ hr' = r.h
          /\ ret' = [op |-> "Rem", err |-> r.err, arg |-> <<score, nodeID>>,
                     found |-> FALSE]
    /\ SkipCall
    /\ UNCHANGED <<hash, migrator, registered, orphaned>>
    /\ UNCHANGED lockVars
    /\ UNCHANGED opVars

SkipAddNodeToDataKeys(nodeID, dataKeys) ==
    /\ hr' = AddNodeToDataKeys(hr, nodeID, dataKeys)
    /\ ret' = [op |-> "AddNodeToDataKeys", err |-> "", arg |-> <<nodeID, dataKeys>>,
               found |-> dataKeys \subseteq DataKeys(hr, nodeID)]
    /\ SkipCall
    /\ UNCHANGED <<hash, migrator, registered, orphaned>>
    /\ UNCHANGED lockVars
    /\ UNCHANGED opVars

SkipNext ==
    \/ \E score \in Scores : \E nodeID \in AllVKeys : \E rLevel \in 0..MaxLevel :
          SkipAdd(score, nodeID, rLevel)
    \/ \E score \in Scores : \E nodeID \in AllVKeys : SkipRem(score, nodeID)
    \/ \E dataKeys \in SUBSET DataKeySet : SkipAddNodeToDataKeys(NodeA, dataKeys)

SpecSkip == SkipInit /\ [][SkipNext]_vars

--------------------------------------------------------------------------
(* What the claims about the ring speak of.                               *)

Range(seq) == {seq[i] : i \in 1..Len(seq)}

\* the slots of a ring: score -> ordered list of virtual-node keys
Slots(h) == [sc \in {x \in Scores : get(h, x) # NIL} |-> Node(h, sc).v]

\* the node owning the slot that Ceiling finds for a data key
OwnerOf(h, dataKey) ==
    getNodeID(Node(h, Ceiling(h, Encrypt(dataKey))).v[1])

\* the nodes whose DataKeys hold a data key
HoldersOf(h, dataKey) ==
    {n \in DOMAIN h.nodeToDataKey : dataKey \in h.nodeToDataKey[n]}

AllDataKeys(h) == UNION {h.nodeToDataKey[n] : n \in DOMAIN h.nodeToDataKey}

\* N has no entry in Node->Replicas and no virtual node in any slot
Absent(h, N) ==
    /\ N \notin DOMAIN Nodes(h)
    /\ \A sc \in DOMAIN Slots(h) : \A vk \in Range(Slots(h)[sc]) : getNodeID(vk) # N

\* A is the only node: the only entry of Node->Replicas, and every virtual
\* node in the ring is one of A's
SoleNode(h, A) ==
    /\ DOMAIN Nodes(h) = {A}
    /\ \A sc \in DOMAIN Slots(h) : \A vk \in Range(Slots(h)[sc]) : getNodeID(vk) = A

\* two rings agree on everything a caller can read
SameRing(h1, h2) ==
    /\ Slots(h1) = Slots(h2)
    /\ Nodes(h1) = Nodes(h2)
    /\ \A n \in (DOMAIN h1.nodeToDataKey) \cup (DOMAIN h2.nodeToDataKey) \cup NodeIDs :
          DataKeys(h1, n) = DataKeys(h2, n)

\* a Lock call of w is inside s.lock.Lock(), holding s.doubleLock, while
\* holder owns the lock, has called Unlock and waits for s.doubleLock, and
\* the expiry goroutine of the holder's acquisition, if it has one, has
\* taken the time.After case and waits for s.doubleLock too
AllBlocked(w, holder) ==
    /\ w # holder
    /\ pc[w] = "Lock:lock" /\ doubleLock = w
    /\ lock /\ owner = holder /\ held[holder] # 0
    /\ pc[holder] = "Unlock:doubleLock"
    /\ timer[held[holder]].state \in {"none", "unlock"}

\* the acquisition of c is in force: granted, not unlocked by c, and its
\* expireSeconds have not elapsed
InForce(c) == held[c] # 0 /\ ~elapsed[held[c]]

\* C1: a Lock call that waits for a held lock gets it once the holder
\* unlocks or the expiry fires: no state has the waiting Lock, the holder's
\* Unlock and the expiry goroutine all blocked on each other
C1_WaitingLockNeverStuck ==
    \A w \in Callers : \A holder \in Callers : ~AllBlocked(w, holder)

\* once the three are blocked on each other they stay so in every step
C1_BlockedForGood ==
    [][\A w \in Callers : \A holder \in Callers :
          AllBlocked(w, holder) => AllBlocked(w, holder)']_vars

\* C2: while the acquisition of one caller is in force (from its Lock
\* returning to its own Unlock or the elapse of its expireSeconds), no Lock
\* of another caller has returned and is in force as well
C2_ExclusiveOwnership ==
    \A c1 \in Callers : \A c2 \in Callers :
        c1 # c2 => ~(InForce(c1) /\ InForce(c2))

\* C3: every migrator call of AddNode / RemoveNode comes after the call has
\* released the ring lock: while a migrator task of a call runs, the lock is
\* not held by that call
C3_MigratorAfterLockRelease ==
    \A c \in Callers : running[c] # {} => ~(lock /\ owner = c)

\* C4: with a migrator, every registered data key is held by exactly one
\* node, the owner of the slot at Ceiling(hash(key))
C4_KeyHeldByArcOwner ==
    migrator =>
        \A k \in registered :
            /\ Ceiling(hr, Encrypt(k)) # -1
            /\ HoldersOf(hr, k) = {OwnerOf(hr, k)}

\* C5: every virtual-node key stored in a slot decodes to a node ID that is
\* present in Node->Replicas, also after calls that returned an error
C5_VKeysHaveReplicas ==
    \A sc \in DOMAIN Slots(hr) : \A vk \in Range(Slots(hr)[sc]) :
        getNodeID(vk) \in DOMAIN Nodes(hr)

\* C6: every node ID with a non-empty DataKeys set is present in
\* Node->Replicas, with or without a migrator
C6_DataKeysHaveReplicas ==
    \A n \in DOMAIN hr.nodeToDataKey :
        hr.nodeToDataKey[n] # {} => n \in DOMAIN Nodes(hr)

\* C7: for every node N of Node->Replicas and every i below its replica
\* count, the slot at hash("N_i") exists and lists "N_i"
C7_ReplicasAreInRing ==
    \A N \in DOMAIN Nodes(hr) : \A i \in 0..(Nodes(hr)[N] - 1) :
        LET nodeKey == getRawNodeKey(N, i)
            slot == Node(hr, Encrypt(nodeKey))
        IN slot.err = "" /\ nodeKey \in Range(slot.v)

\* C7's case: a RemoveNode went through and left a node whose two virtual
\* nodes share a slot with a third
C7_Witness ==
    /\ ret.op = "RemoveNode" /\ ret.err = ""
    /\ NodeA \in DOMAIN Nodes(hr)
    /\ Encrypt(getRawNodeKey(NodeA, 0)) = Encrypt(getRawNodeKey(NodeA, 1))
    /\ Len(Node(hr, Encrypt(getRawNodeKey(NodeA, 0))).v) = 2

\* C8: with a migrator, the data keys held by the nodes are the keys given
\* to a successful GetNode, up to those orphaned by a sole-node removal
C8_NoKeyLostOrInvented ==
    migrator =>
        /\ AllDataKeys(hr) \subseteq registered
        /\ (registered \ orphaned) \subseteq AllDataKeys(hr)

\* C9: with a migrator, RemoveNode(A) of the only node A, holding data
\* keys, fails with the error "no other node", whatever A's replica count
C9_SoleNodeRemovalFails ==
    migrator =>
        \A A \in NodeIDs :
            (SoleNode(hr, A) /\ DataKeys(hr, A) # {}) =>
                RemoveNode(hr, A).err = "no other node"

\* that removal does fail every time, with one of the two messages of
\* migrateOut
C9_SoleNodeRemovalErrs ==
    migrator =>
        \A A \in NodeIDs :
            (SoleNode(hr, A) /\ DataKeys(hr, A) # {}) =>
                RemoveNode(hr, A).err \in NoOtherNodeErrs

\* C10: AddNode(N, w) of an absent node followed at once by RemoveNode(N)
\* gives back the slots, Node->Replicas and Node->DataKeys
C10_AddThenRemoveRestores ==
    \A N \in NodeIDs : \A w \in WeightsOf(N) :
        \A levels \in [1..(getValidWeight(w) * OptReplicas) -> 0..MaxLevel] :
            Absent(hr, N) =>
                LET added   == AddNode(hr, N, w, levels)
                    removed == RemoveNode(added.h, N)
                IN /\ added.err = ""
                   /\ removed.err = ""
                   /\ SameRing(removed.h, hr)

\* the weights passed to AddNode
AllWeights == UNION {WeightsOf(n) : n \in NodeIDs}

\* C11: AddNode of a node that is already in Nodes() fails with "repeat
\* node", leaves slots, Node->Replicas and Node->DataKeys as they were and
\* builds no migrator task
C11_RepeatNodeRejected ==
    \A nodeID \in DOMAIN Nodes(hr) : \A weight \in AllWeights :
        \A levels \in [1..(getValidWeight(weight) * OptReplicas) -> 0..MaxLevel] :
            /\ AddNode(hr, nodeID, weight, levels).err = "repeat node"
            /\ AddNode(hr, nodeID, weight, levels).tasks = <<>>
            /\ SameRing(AddNode(hr, nodeID, weight, levels).h, hr)

\* C11's case: an AddNode has just been refused for a node holding data
C11_Witness ==
    /\ ret.op = "AddNode" /\ ret.err = "repeat node"
    /\ \E n \in DOMAIN Nodes(hr) : DataKeys(hr, n) # {}

\* C12: RemoveNode of a node that is not in Nodes() fails with "invalid node
\* id", leaves slots, Node->Replicas and Node->DataKeys as they were and
\* builds no migrator task
C12_UnknownNodeRejected ==
    \A nodeID \in NodeIDs \ DOMAIN Nodes(hr) :
        /\ RemoveNode(hr, nodeID).err = "invalid node id"
        /\ RemoveNode(hr, nodeID).tasks = <<>>
        /\ SameRing(RemoveNode(hr, nodeID).h, hr)

\* C12's case: a RemoveNode has just been refused on a ring that has another
\* node with data
C12_Witness ==
    /\ ret.op = "RemoveNode" /\ ret.err = "invalid node id"
    /\ \E n \in DOMAIN Nodes(hr) : DataKeys(hr, n) # {}

\* C13: on a ring without slots GetNode fails with "no node available" and
\* registers the key with no node
C13_EmptyRingHasNoNode ==
    DOMAIN Slots(hr) = {} =>
        \A dataKey \in DataKeySet :
            /\ GetNode(hr, dataKey).err = "no node available"
            /\ GetNode(hr, dataKey).h = hr

\* C13's case: GetNode has just failed on a ring whose node, added on two
\* levels and given a data key, has been removed again
C13_Witness ==
    /\ ret.op = "GetNode" /\ ret.err = "no node available"
    /\ DOMAIN Slots(hr) = {} /\ Nodes(hr) = <<>>
    /\ registered # {}

\* c's Unlock runs unlock and returns in this step
UnlockRuns(c) == pc[c] = "Unlock:doubleLock" /\ pc'[c] = "idle"

\* C15: an Unlock by a caller whose token is not the owner's, while another
\* caller holds the lock, returns "not your lock" and leaves the primary
\* mutex, the owner token and the expiry timer as they were
C15_ForeignUnlockRejected ==
    [][\A c \in Callers :
          (UnlockRuns(c) /\ lock /\ owner # c) =>
              /\ ret' = [op |-> "Unlock", err |-> "not your lock"]
              /\ UNCHANGED <<lock, owner, cancel, timer, cancelled>>]_vars

\* C15's case: the last call to return is an Unlock that was refused, and the
\* lock taken before it is still held
C15_Witness ==
    /\ ret = [op |-> "Unlock", err |-> "not your lock"]
    /\ lock /\ owner \in Callers

\* C16: an Unlock of a lock that is not held (never locked, unlocked by its
\* owner, or released by the expiry) returns "not locked"
C16_ReleasedUnlockNotLocked ==
    [][\A c \in Callers :
          (UnlockRuns(c) /\ ~lock) => ret'.err = "not locked"]_vars

\* the lock is held by an acquisition whose expireSeconds have elapsed and
\* whose holder is not in an Unlock call
Expired ==
    /\ lock /\ owner \in Callers
    /\ held[owner] # 0 /\ elapsed[held[owner]]
    /\ pc[owner] # "Unlock:doubleLock"

\* C14: once the expireSeconds of a held lock have elapsed without an Unlock
\* of the holder, a Lock call that starts then (it is at its first statement,
\* s.doubleLock.Lock()), by the holder or by another caller, returns
C14_LockAfterExpirySucceeds ==
    \A w \in Callers : (pc[w] = "Lock:doubleLock" /\ Expired) ~> (pc[w] = "idle")

\* c's AddNode or RemoveNode changes the ring in this step
Mutates(c) ==
    /\ pc[c] = "body" /\ pc'[c] # "body"
    /\ op[c].name \in {"AddNode", "RemoveNode"}
    /\ hr' # hr

\* C17: whenever an AddNode or RemoveNode changes slots, Node->Replicas or
\* Node->DataKeys, its caller holds the ring lock, however long the call has
\* been running compared with lockExpireSeconds
C17_MutationsUnderLock ==
    [][\A c \in Callers : Mutates(c) => (lock /\ owner = c)]_vars

\* C18: a migrator task of an AddNode or RemoveNode runs only while the call
\* is in batchExecuteMigrator: after the call's ring mutations (its body is
\* over) and before the call returns (it has not reached its deferred Unlock)
C18_MigratorWithinBatch ==
    \A c \in Callers : running[c] # {} => pc[c] = "batchExecuteMigrator"

\* C18's case: a migrator task of a call is running
C18_Witness ==
    \E c \in Callers :
        /\ running[c] # {} /\ op[c].name \in {"AddNode", "RemoveNode"}
        /\ hr.nodeToReplicas # <<>>

\* every migrateTasks entry of the result r of AddNode(h, C, ...) moves keys
\* to C from a node that h already had, other than C
IntoNewNode(h, C, r) ==
    \A i \in 1..Len(r.tasks) :
        /\ r.tasks[i].to = C
        /\ r.tasks[i].from # C
        /\ r.tasks[i].from \in DOMAIN Nodes(h)

\* C20: when a node C is added to a ring that holds other nodes, every
\* migrator invocation has to = C and from = a node present before the
\* call and different from C, wherever C's virtual nodes land
C20_MigrateInFromOthers ==
    \A C \in NodeIDs : \A weight \in WeightsOf(C) :
        (Absent(hr, C) /\ DOMAIN Nodes(hr) # {}) =>
            \A levels \in [1..(getValidWeight(weight) * OptReplicas) -> 0..MaxLevel] :
                IntoNewNode(hr, C, AddNode(hr, C, weight, levels))

\* a migrator task of c ends in this step
TaskEnds(c) == running'[c] # running[c] /\ running'[c] \subseteq running[c]

\* c's batchExecuteMigrator is over after a task in which the migrator
\* returned an error or panicked
BatchFailed(c) == pc[c] = "Unlock:doubleLock" /\ op[c].failed

\* C19: when the migrator returns an error or panics in a task, the task's
\* end leaves the ring and the other tasks as they are, the call leaves
\* batchExecuteMigrator only when every task has run, and it returns nil
C19_MigratorFailureIgnored ==
    [][\A c \in Callers :
          /\ (TaskEnds(c) /\ op'[c].failed) =>
                /\ hr' = hr
                /\ op'[c].todo = op[c].todo /\ op'[c].err = op[c].err
                /\ pc' = pc
          /\ BatchFailed(c)' => (op'[c].todo = {} /\ running'[c] = {})
          /\ (BatchFailed(c) /\ pc'[c] = "idle") =>
                ret' = [op |-> op[c].name, err |-> ""]]_vars

\* C19's case: a call with two migrateTasks entries is through
\* batchExecuteMigrator, and the migrator failed in one of them
C19_Witness ==
    \E c \in Callers : BatchFailed(c) /\ Len(op[c].tasks) >= 2

\* the key sets of the migrateTasks entries of r are pairwise disjoint
DisjointKeys(r) ==
    \A i \in 1..Len(r.tasks) : \A j \in 1..Len(r.tasks) :
        i # j => r.tasks[i].keys \cap r.tasks[j].keys = {}

\* C21: the key sets that the migrator invocations of one AddNode get are
\* pairwise disjoint: no data key is migrated twice by one AddNode
C21_MigratedOnce ==
    \A C \in NodeIDs : \A weight \in WeightsOf(C) :
        Absent(hr, C) =>
            \A levels \in [1..(getValidWeight(weight) * OptReplicas) -> 0..MaxLevel] :
                DisjointKeys(AddNode(hr, C, weight, levels))

\* C22: a goroutine that is not inside an AddNode, RemoveNode or GetNode
\* call (it made none, or its calls have returned, with or without an
\* error) does not own the ring lock: the lock is free for the Lock of
\* another caller unless a call in progress holds it
C22_LockReleasedOnReturn ==
    \A c \in Callers : pc[c] = "idle" => ~(lock /\ owner = c)

\* C22's case: the last call returned an error, no call is in progress and
\* the lock is free
C22_Witness ==
    /\ ret.op \in EngineCalls /\ ret.err # ""
    /\ \A c \in Callers : pc[c] = "idle"
    /\ ~lock /\ nacq >= 2

\* scores the lookups are asked for: the slot scores and scores between them
Probes == Scores \cup {2, MaxInt32 - 2}

\* ceiling and floor on a plain set of scores, with the wrap and the
\* sentinel
plainCeiling(S, s) ==
    IF S = {} THEN -1
    ELSE IF \E x \in S : x >= s
         THEN CHOOSE x \in S : x >= s /\ \A y \in S : y >= s => x <= y
         ELSE CHOOSE x \in S : \A y \in S : x <= y

plainFloor(S, s) ==
    IF S = {} THEN -1
    ELSE IF \E x \in S : x <= s
         THEN CHOOSE x \in S : x <= s /\ \A y \in S : y <= s => x >= y
         ELSE CHOOSE x \in S : \A y \in S : x >= y

\* C23: after any Add and Rem calls with any levels, Ceiling(s) is the
\* smallest slot score >= s, the smallest slot score when none is >= s, and
\* -1 on a ring without slots: the ceiling of the plain set of the scores
\* that have a virtualNode
C23_CeilingOfSortedSet ==
    \A s \in Probes : Ceiling(hr, s) = plainCeiling(DOMAIN hr.nodes, s)

\* C23's case: a Rem has unlinked a slot of a two-level skiplist and two
\* slots are left, so that Ceiling wraps for the top score
C23_Witness ==
    /\ ret.op = "Rem" /\ ret.err = ""
    /\ Len(hr.root) = 2 /\ DOMAIN hr.nodes = {0, 1}
    /\ Ceiling(hr, MaxInt32 - 1) = 0

\* C24: after any Add and Rem calls with any levels, Floor(s) is the largest
\* slot score <= s, the largest slot score when none is <= s, and -1 on a
\* ring without slots; Floor(s) = Ceiling(s) = s when s is a slot score
C24_FloorOfSortedSet ==
    /\ \A s \in Probes : Floor(hr, s) = plainFloor(DOMAIN hr.nodes, s)
    /\ \A s \in DOMAIN hr.nodes : Floor(hr, s) = s /\ Ceiling(hr, s) = s

\* C24's case: a Rem has unlinked the lowest slot of a two-level skiplist
\* and two slots are left, so that Floor wraps for score 0
C24_Witness ==
    /\ ret.op = "Rem" /\ ret.err = ""
    /\ Len(hr.root) = 2 /\ DOMAIN hr.nodes = {1, MaxInt32 - 1}
    /\ Floor(hr, 0) = MaxInt32 - 1

\* the vkey list the heap has for a score, empty when it has no virtualNode
ListAt(h, score) ==
    IF score \in DOMAIN h.nodes THEN h.nodes[score].nodeIDs ELSE <<>>

\* C25: an Add of a virtual node that is already in the slot at that score
\* leaves the ring as it is (no second entry, same order, no new slot), and
\* an AddNodeToDataKeys of keys the node already has leaves DataKeys of
\* every node and the slots as they are
C25_AddTwiceIsAddOnce ==
    [][/\ (ret'.op = "Add" /\ ret'.arg[2] \in Range(ListAt(hr, ret'.arg[1])))
            => hr' = hr
       /\ (ret'.op = "AddNodeToDataKeys" /\
           ret'.arg[2] \subseteq DataKeys(hr, ret'.arg[1]))
            => /\ \A n \in NodeIDs \cup AllVKeys : DataKeys(hr', n) = DataKeys(hr, n)
               /\ hr'.nodes = hr.nodes /\ hr'.root = hr.root]_vars

\* C25's case: the last call was an Add of a virtual node that was already
\* in its slot, a slot of several virtual nodes
C25_Witness ==
    /\ ret.op = "Add" /\ ret.found
    /\ Len(ListAt(hr, ret.arg[1])) >= 2

RECURSIVE chainFrom(_, _, _)
\* the scores on one level of the skiplist, from a pointer on
chainFrom(h, ptr, level) ==
    IF ptr = NIL THEN <<>>
    ELSE <<ptr>> \o chainFrom(h, h.nodes[ptr].nexts[level + 1], level)

\* a level of the skiplist holds, in ascending order, exactly the
\* virtualNodes that have that level
LevelHolds(h, level) ==
    /\ Range(chainFrom(h, h.root[level + 1], level)) =
          {sc \in DOMAIN h.nodes : Len(h.nodes[sc].nexts) > level}
    /\ \A i \in 1..(Len(chainFrom(h, h.root[level + 1], level)) - 1) :
          chainFrom(h, h.root[level + 1], level)[i] <
          chainFrom(h, h.root[level + 1], level)[i + 1]

\* a score is a slot exactly if it has a virtualNode with a non-empty list,
\* which Node, Ceiling and Floor find and every level it was made for holds
SlotsAreLists(h) ==
    /\ \A sc \in DOMAIN h.nodes :
          /\ h.nodes[sc].nodeIDs # <<>>
          /\ Len(h.nodes[sc].nexts) <= Len(h.root)
    /\ \A sc \in Probes :
          /\ get(h, sc) # NIL <=> sc \in DOMAIN h.nodes
          /\ sc \in DOMAIN h.nodes =>
                /\ Node(h, sc) = [v |-> h.nodes[sc].nodeIDs, err |-> ""]
                /\ Ceiling(h, sc) = sc /\ Floor(h, sc) = sc
    /\ \A level \in 0..(Len(h.root) - 1) :
          h.root[level + 1] # NIL /\ LevelHolds(h, level)

\* what a successful Rem(score, nodeID) leaves of the lists: the list at
\* score without nodeID, in the same order, and no virtualNode when that was
\* the last one; every other list as it was
RemLeaves(h1, h2, score, nodeID) ==
    /\ ListAt(h2, score) =
          SelectSeq(ListAt(h1, score), LAMBDA v : v # nodeID)
    /\ Len(ListAt(h1, score)) = 1 => score \notin DOMAIN h2.nodes
    /\ \A sc \in Scores \ {score} :
          /\ ListAt(h2, sc) = ListAt(h1, sc)
          /\ sc \in DOMAIN h2.nodes <=> sc \in DOMAIN h1.nodes

\* C26: in every state a score is a slot, found by Node, Ceiling and Floor
\* and linked on every level it was inserted on, exactly if its vkey list
\* is non-empty; Rem of the last vkey of a slot unlinks the slot on all
\* levels, Rem of one vkey among several keeps the others in their order
C26_SlotIffListNonEmpty ==
    /\ []SlotsAreLists(hr)
    /\ [][(ret'.op = "Rem" /\ ret'.err = "") =>
             RemLeaves(hr, hr', ret'.arg[1], ret'.arg[2])]_vars

\* C26's case: a Rem took one of the three vkeys of a slot, next to a slot
\* that is linked on two levels
C26_Witness ==
    /\ ret.op = "Rem" /\ ret.err = ""
    /\ Len(ListAt(hr, ret.arg[1])) = 2
    /\ \E sc \in DOMAIN hr.nodes : sc # ret.arg[1] /\ Len(hr.nodes[sc].nexts) = 2

\* the slot score before and after vs on the circle of the slot scores S,
\* vs not among them
scoreBefore(S, vs) ==
    IF \E x \in S : x < vs
    THEN CHOOSE x \in S : x < vs /\ \A y \in S : y < vs => y <= x
    ELSE CHOOSE x \in S : \A y \in S : y <= x

scoreAfter(S, vs) ==
    IF \E x \in S : x > vs
    THEN CHOOSE x \in S : x > vs /\ \A y \in S : y > vs => x <= y
    ELSE CHOOSE x \in S : \A y \in S : x <= y

\* d lies in the circular arc (lastScore, vs]
InCircularArc(d, lastScore, vs) ==
    IF lastScore < vs THEN lastScore < d /\ d <= vs
    ELSE d > lastScore \/ d <= vs

\* the owner of the slot after vs in ring h
OwnerAfter(h, vs) == getNodeID(ListAt(h, scoreAfter(DOMAIN h.nodes, vs))[1])

\* the keys of that owner in the arc that ends at vs
ArcKeys(h, vs) ==
    {k \in DataKeys(h, OwnerAfter(h, vs)) :
        InCircularArc(Encrypt(k), scoreBefore(DOMAIN h.nodes, vs), vs)}

\* m, what migrateIn returned for the new slot vs of N put into ring h, moved
\* exactly the keys of the arc from the owner of the next slot to N
MovedArc(h, N, vs, m) ==
    /\ m.err = ""
    /\ m.datas = ArcKeys(h, vs)
    /\ DataKeys(m.h, OwnerAfter(h, vs)) = DataKeys(h, OwnerAfter(h, vs)) \ ArcKeys(h, vs)
    /\ DataKeys(m.h, N) = DataKeys(h, N) \cup ArcKeys(h, vs)

\* the ring in the middle of AddNode(N), before virtual node i is added
BeforeVirtual(h, N, replicas, i, levels) ==
    addLoop(AddNodeToReplica(h, N, replicas), N, i, 0, levels, <<>>).h

\* MovedArc for virtual node i of N, if it gets a slot of its own in a ring h
\* that has slots
MovedArcAt(h, N, i, levels) ==
    (Encrypt(getRawNodeKey(N, i)) \notin DOMAIN h.nodes /\ DOMAIN h.nodes # {}) =>
        MovedArc(h, N, Encrypt(getRawNodeKey(N, i)),
                 migrateIn(Add(h, Encrypt(getRawNodeKey(N, i)),
                               getRawNodeKey(N, i), levels[i + 1]),
                           Encrypt(getRawNodeKey(N, i)), N))

\* C27: when AddNode(N) gives a virtual node a slot of its own at vs in a
\* ring with other slots, the keys moved are the keys of the next slot's
\* owner X whose hash lies in the circular arc (lastScore, vs], whether or
\* not the arc crosses 0; they leave DataKeys(X) and enter DataKeys(N)
C27_MigrateInMovesArc ==
    migrator =>
        \A N \in NodeIDs : \A weight \in WeightsOf(N) :
            Absent(hr, N) =>
                \A levels \in [1..(getValidWeight(weight) * OptReplicas) -> 0..MaxLevel] :
                    \A i \in 0..(getValidWeight(weight) * OptReplicas - 1) :
                        MovedArcAt(BeforeVirtual(hr, N, getValidWeight(weight) * OptReplicas,
                                                 i, levels),
                                   N, i, levels)

\* MovedArcAt when the owner of the next slot is another node than N
MovedArcAtOther(h, N, i, levels) ==
    OwnerAfter(h, Encrypt(getRawNodeKey(N, i))) # N => MovedArcAt(h, N, i, levels)

\* the same for the virtual nodes whose next slot belongs to another node:
\* this holds
C27_MovesArcFromOthers ==
    migrator =>
        \A N \in NodeIDs : \A weight \in WeightsOf(N) :
            Absent(hr, N) =>
                \A levels \in [1..(getValidWeight(weight) * OptReplicas) -> 0..MaxLevel] :
                    \A i \in 0..(getValidWeight(weight) * OptReplicas - 1) :
                        MovedArcAtOther(BeforeVirtual(hr, N, getValidWeight(weight) * OptReplicas,
                                                      i, levels),
                                        N, i, levels)

\* the ring in the middle of RemoveNode(L), before virtual node i is taken
\* out: what the loop has done for the virtual nodes below i
BeforeLeaving(h, L, i) ==
    removeLoop(DeleteNodeToReplica(h, L), L, i, 0, <<>>)

\* the vkeys of the slot sc of h that are not L's, in the slot's order
OthersAt(h, L, sc) == SelectSeq(ListAt(h, sc), LAMBDA v : getNodeID(v) # L)

\* the scores of the slots of h, other than vs, that L does not own alone
SlotsOfOthers(h, L, vs) ==
    {sc \in DOMAIN h.nodes \ {vs} : OthersAt(h, L, sc) # <<>>}

\* the next valid owner for the slot vs that L leaves in ring h: the node of
\* the slot's second vkey, or the owner that the first slot after vs on the
\* circle has without L; NoNode if there is none
NextValidOwner(h, L, vs) ==
    IF Len(ListAt(h, vs)) > 1 THEN getNodeID(ListAt(h, vs)[2])
    ELSE IF SlotsOfOthers(h, L, vs) = {} THEN NoNode
    ELSE getNodeID(OthersAt(h, L, scoreAfter(SlotsOfOthers(h, L, vs), vs))[1])

\* m, what migrateOut returned for a virtual node of L at vs in ring h, is
\* no migration or one to the next valid owner, which is not L and is in
\* Node->Replicas of the ring after, the result of RemoveNode(L)
ToNextOwner(h, L, vs, m, after) ==
    (m.err = "" /\ m.datas # {}) =>
        /\ m.to = NextValidOwner(h, L, vs)
        /\ m.to # L
        /\ m.to \in DOMAIN Nodes(after)

\* ToNextOwner for virtual node i of L, b being the ring before it is taken
\* out and r the result of the RemoveNode(L) call, if the call succeeds: its
\* migrateTasks are then handed to the migrator
ToNextOwnerAt(b, L, i, r) ==
    r.err = "" =>
        ToNextOwner(b.h, L, Encrypt(getRawNodeKey(L, i)),
                    migrateOut(b.h, Encrypt(getRawNodeKey(L, i)), L), r.h)

\* C28: every migration that RemoveNode(L) produces goes to the next valid
\* owner: the node of the second vkey of the slot L leaves, else the owner
\* of the first following slot that is not L's; it is never L and it is in
\* Node->Replicas after the call, for every Encryptor, also one that gives
\* two virtual nodes of L the same score
C28_MigrateOutToNextOwner ==
    migrator =>
        \A L \in DOMAIN Nodes(hr) :
            \A i \in 0..(Nodes(hr)[L] - 1) :
                ToNextOwnerAt(BeforeLeaving(hr, L, i), L, i, RemoveNode(hr, L))

\* C29: a RemoveNode call that returns an error leaves Node->Replicas, the
\* slots and Node->DataKeys as they were before the call; after a failed
\* removal of the only node, the node is still in Nodes()
C29_FailedRemoveChangesNothing ==
    \A L \in NodeIDs :
        RemoveNode(hr, L).err # "" =>
            /\ SameRing(RemoveNode(hr, L).h, hr)
            /\ DOMAIN Nodes(RemoveNode(hr, L).h) = DOMAIN Nodes(hr)

\* the expiry goroutine of acquisition a runs unlock in this step and
\* releases s.lock
TimerReleases(a) ==
    /\ timer[a].state = "unlock" /\ timer'[a].state = "done"
    /\ lock /\ ~lock'

\* C30: the expiry goroutine started by a Lock call releases s.lock only
\* while the lock is held by the acquisition of that Lock call, never one
\* made by a later Lock call, by another caller or by the same one
C30_TimerReleasesOwnAcquisition ==
    [][\A a \in Acqs : TimerReleases(a) => held[owner] = a]_vars

\* the slot sc of h holds a vkey of a node other than avoidNode
YieldsOther(h, avoidNode, sc) == OthersAt(h, avoidNode, sc) # <<>>

\* getValidNextNode(score, avoidNode) on ring h ends within one call per
\* slot and two more: the first call, from a score that need not be a slot,
\* and the last one, which finds the next score among the visited ones
NextTerminates(h, score, avoidNode) ==
    nextCalls(h, score, avoidNode, {}) <= Cardinality(DOMAIN h.nodes) + 2

\* what getValidNextNode(score, avoidNode) returns on ring h is a node other
\* than avoidNode, or the empty string; it is the empty string if no slot
\* yields another node, and only if no slot other than the one at score does
NextIsOther(h, score, avoidNode, r) ==
    /\ r.err = ""
    /\ r.v # NoNode => r.v # avoidNode
    /\ r.v = NoNode =>
          \A sc \in DOMAIN h.nodes \ {score} : ~YieldsOther(h, avoidNode, sc)
    /\ (\A sc \in DOMAIN h.nodes : ~YieldsOther(h, avoidNode, sc)) => r.v = NoNode

\* C31: getValidNextNode(score, avoidNode) terminates on every ring, also
\* one whose slots all belong to avoidNode, and returns the empty string
\* exactly when the walk of the ring finds no node other than avoidNode
C31_NextNodeWalk ==
    \A score \in Scores : \A avoidNode \in NodeIDs :
        /\ NextTerminates(hr, score, avoidNode)
        /\ NextIsOther(hr, score, avoidNode, getValidNextNode(hr, score, avoidNode, {}))

\* the termination alone: this holds
C31_NextNodeTerminates ==
    \A score \in Scores : \A avoidNode \in NodeIDs :
        NextTerminates(hr, score, avoidNode)

\* ring h2 differs from h1 at most in the slot at score
OnlySlotChanged(h1, h2, score) ==
    /\ \A sc \in Scores \ {score} : Node(h2, sc) = Node(h1, sc)
    /\ Nodes(h2) = Nodes(h1)
    /\ \A n \in NodeIDs : DataKeys(h2, n) = DataKeys(h1, n)

\* C32: Rem(score, vkey) changes only the slot at score: the other slots,
\* Node->Replicas and Node->DataKeys of every node stay as they were, also
\* when a node's ID is another node's vkey (nodes "a" and "a_0")
C32_RemChangesOnlySlot ==
    \A score \in Scores : \A vkey \in AllVKeys :
        OnlySlotChanged(hr, Rem(hr, score, vkey).h, score)

\* r, the result of RemoveNode(L) when the HashRing failed inside
\* getValidNextNode for virtual node i: an error, no migrateTasks entry
\* without a destination, and the virtual node still in its slot
FailureSurfaced(L, i, r) ==
    /\ r.err # ""
    /\ \A j \in 1..Len(r.tasks) : r.tasks[j].to # NoNode
    /\ getRawNodeKey(L, i) \in Range(ListAt(r.h, Encrypt(getRawNodeKey(L, i))))

\* FailureSurfaced for virtual node i of L, b being RemoveNode's result
\* before that iteration, if RemoveNode gets that far and migrateOut gets as
\* far as getValidNextNode
FailureSurfacedAt(b, L, replicas, i) ==
    (b.err = "" /\ reachesNext(b.h, Encrypt(getRawNodeKey(L, i)), L)) =>
        FailureSurfaced(L, i, removeLoopNextFails(b.h, L, replicas, i))

\* C33: when a Ceiling or Node call of the HashRing fails inside
\* getValidNextNode during RemoveNode(L), RemoveNode returns an error, builds
\* no migrateTasks entry with an empty destination and leaves the virtual
\* node in the ring
C33_NextFailureSurfaced ==
    \A L \in DOMAIN Nodes(hr) :
        \A i \in 0..(Nodes(hr)[L] - 1) :
            FailureSurfacedAt(BeforeLeaving(hr, L, i), L, Nodes(hr)[L], i)

==========================================================================
